---- MODULE Spec2Model ----
(***************************************************************************)
(* A model of find-folly's probe_folly() (src/lib.rs).                     *)
(*                                                                         *)
(* A text (a String, a &str, a Path) is the sequence of its characters, so *)
(* that prefix stripping, tokenization and the std::path operations are    *)
(* computed on the text as the code computes them.  The host environment   *)
(* (the pkg-config answers, the files on disk) is nondeterministic input.  *)
(* Everything the routine does that the outside can see (dependency        *)
(* probes, subprocess launches, lines written to stdout, file-existence    *)
(* checks) is appended, in program order, to the variable trace.           *)
(***************************************************************************)
EXTENDS Integers, Sequences, FiniteSets, TLC

VARIABLES
    pc,                  \* position inside probe_folly()
    result,              \* outcome of the call: Running until it returns
    fs,                  \* the files that exist on the host
    trace,               \* observable events, in program order
    libs_args,           \* the tokens of the --libs output
    li,                  \* position of the next token of libs_args
    lib_dirs,            \* folly.lib_dirs
    di,                  \* position of the next entry of lib_dirs in the boost loop
    found_boost_context, \* the local of the same name
    cflags_args,         \* the tokens of the --cflags output
    ci,                  \* position of the next token of cflags_args
    include_paths,       \* folly.include_paths
    other_cflags         \* folly.other_cflags

vars == <<pc, result, fs, trace, libs_args, li, lib_dirs, di,
          found_boost_context, cflags_args, ci, include_paths, other_cflags>>

----------------------------------------------------------------------------
(* Bounds of the environment.                                              *)

MaxLibsTokens == 2
MaxCflagsTokens == 2

----------------------------------------------------------------------------
(* Texts.                                                                  *)

\* The text of a literal: the sequence of its characters.
Str(literal) == [i \in 1..Len(literal) |-> SubSeq(literal, i, i)]

Ch(s, i) == s[i]

Drop(s, n) == SubSeq(s, n + 1, Len(s))

Take(s, n) == SubSeq(s, 1, n)

\* str::starts_with
StartsWith(s, p) == Len(s) >= Len(p) /\ Take(s, Len(p)) = p

None == [some |-> FALSE, val |-> <<>>]

Some(v) == [some |-> TRUE, val |-> v]

\* str::strip_prefix
StripPrefix(s, p) == IF StartsWith(s, p) THEN Some(Drop(s, Len(p))) ELSE None

RECURSIVE JoinWith(_, _)
JoinWith(ss, sep) ==
    IF ss = <<>> THEN <<>>
    ELSE IF Len(ss) = 1 THEN ss[1]
    ELSE ss[1] \o sep \o JoinWith(Tail(ss), sep)

\* The last position of character c in s, 0 when there is none.
LastIndexOf(s, c) ==
    LET at == {i \in 1..Len(s) : Ch(s, i) = c}
    IN  IF at = {} THEN 0 ELSE CHOOSE i \in at : \A j \in at : j <= i

\* s cut at every occurrence of c; empty pieces are kept.
RECURSIVE SplitAt(_, _)
SplitAt(s, c) ==
    LET k == LastIndexOf(s, c)
    IN  IF k = 0 THEN <<s>>
        ELSE Append(SplitAt(Take(s, k - 1), c), Drop(s, k))

----------------------------------------------------------------------------
(* Tokenization.                                                           *)

IsShellSpace(c) == c \in {" ", "\t", "\n"}

\* Shlex::parse_word with parse_single and parse_double: the word that
\* starts at position i of s.  mode is "word" outside quotes, "single" or
\* "double" inside; cur is the word so far.  The result tells whether the
\* word is complete (an unterminated quote or a trailing backslash is an
\* error) and the position after the character that ended it.  (Inside
\* double quotes a backslash also escapes the backquote, a character TLA+
\* strings cannot hold: no text of this model contains one.)
RECURSIVE ParseWord(_, _, _, _)
ParseWord(s, i, mode, cur) ==
    IF i > Len(s)
    THEN [ok |-> mode = "word", word |-> cur, next |-> i]
    ELSE LET c == Ch(s, i)
             n == Ch(s, i + 1)
             error == [ok |-> FALSE, word |-> cur, next |-> Len(s) + 1]
         IN  CASE mode = "word" /\ c = "\"" -> ParseWord(s, i + 1, "double", cur)
               [] mode = "word" /\ c = "'" -> ParseWord(s, i + 1, "single", cur)
               [] mode = "word" /\ c = "\\" ->
                    IF i + 1 > Len(s) THEN error
                    ELSE IF n = "\n" THEN ParseWord(s, i + 2, "word", cur)
                    ELSE ParseWord(s, i + 2, "word", Append(cur, n))
               [] mode = "word" /\ IsShellSpace(c) ->
                    [ok |-> TRUE, word |-> cur, next |-> i + 1]
               [] mode = "word" -> ParseWord(s, i + 1, "word", Append(cur, c))
               [] mode = "single" /\ c = "'" -> ParseWord(s, i + 1, "word", cur)
               [] mode = "single" -> ParseWord(s, i + 1, "single", Append(cur, c))
               [] mode = "double" /\ c = "\"" -> ParseWord(s, i + 1, "word", cur)
               [] mode = "double" /\ c = "\\" ->
                    IF i + 1 > Len(s) THEN error
                    ELSE IF n \in {"$", "\"", "\\"}
                         THEN ParseWord(s, i + 2, "double", Append(cur, n))
                    ELSE IF n = "\n" THEN ParseWord(s, i + 2, "double", cur)
                    ELSE ParseWord(s, i + 2, "double", cur \o <<"\\", n>>)
               [] OTHER -> ParseWord(s, i + 1, "double", Append(cur, c))

\* The start of Shlex::next: the position of the first character at or
\* after i that is neither whitespace nor inside a # comment; Len(s) + 1
\* when there is none.
RECURSIVE SkipBlank(_, _, _)
SkipBlank(s, i, in_comment) ==
    IF i > Len(s) THEN i
    ELSE IF in_comment THEN SkipBlank(s, i + 1, Ch(s, i) # "\n")
    ELSE IF IsShellSpace(Ch(s, i)) THEN SkipBlank(s, i + 1, FALSE)
    ELSE IF Ch(s, i) = "#" THEN SkipBlank(s, i + 1, TRUE)
    ELSE i

\* The words the iterator Shlex::new(&output) yields from position i on:
\* it stops at the end of the text and at the first erroneous word.
RECURSIVE ShlexFrom(_, _)
ShlexFrom(s, i) ==
    LET start == SkipBlank(s, i, FALSE)
        w == ParseWord(s, start, "word", <<>>)
    IN  IF start > Len(s) \/ ~w.ok THEN <<>>
        ELSE <<w.word>> \o ShlexFrom(s, w.next)

Shlex(s) == ShlexFrom(s, 1)

IsWhitespace(c) == c \in {" ", "\t", "\n", "\r"}

\* The positions where a maximal run of non-whitespace characters starts.
WordStarts(s) ==
    {i \in 1..Len(s) : ~IsWhitespace(Ch(s, i)) /\ (i = 1 \/ IsWhitespace(Ch(s, i - 1)))}

\* The last position of the run that starts at position i: the one before
\* the next whitespace character, or the end of the text.
WordEnd(s, i) ==
    LET ws == {j \in i..Len(s) : IsWhitespace(Ch(s, j))}
    IN  IF ws = {} THEN Len(s)
        ELSE (CHOOSE j \in ws : \A k \in ws : j <= k) - 1

\* str::split_whitespace: the maximal runs of non-whitespace characters,
\* in order.
SplitWhitespace(s) ==
    LET starts == WordStarts(s)
        Nth(k) == CHOOSE i \in starts : Cardinality({j \in starts : j < i}) = k - 1
    IN  [k \in 1..Cardinality(starts) |-> SubSeq(s, Nth(k), WordEnd(s, Nth(k)))]

----------------------------------------------------------------------------
(* std::path on Unix.  A path is its text; its components are computed as  *)
(* std::path::Components computes them.                                    *)

\* Components::has_physical_root
HasRoot(p) == Len(p) > 0 /\ Ch(p, 1) = "/"

\* Components::include_cur_dir: a relative path that is "." or starts "./".
IncludeCurDir(p) ==
    /\ Len(p) > 0
    /\ Ch(p, 1) = "."
    /\ (Len(p) = 1 \/ Ch(p, 2) = "/")

\* Components::len_before_body
LenBeforeBody(p) == (IF HasRoot(p) THEN 1 ELSE 0) + (IF IncludeCurDir(p) THEN 1 ELSE 0)

\* Components::parse_single_component: "" and a non-leading "." are no
\* component at all.
IsComponent(piece) == piece # <<>> /\ piece # <<".">>

RECURSIVE BodyComponents(_)
BodyComponents(pieces) ==
    IF pieces = <<>> THEN <<>>
    ELSE IF IsComponent(Head(pieces))
         THEN <<Head(pieces)>> \o BodyComponents(Tail(pieces))
         ELSE BodyComponents(Tail(pieces))

\* Path::components, front to back: the text "/" stands for RootDir, a
\* leading "." for CurDir, ".." for ParentDir, any other text for Normal.
Components(p) ==
    (IF HasRoot(p) THEN <<(<<"/">>)>> ELSE IF IncludeCurDir(p) THEN <<(<<".">>)>> ELSE <<>>)
        \o BodyComponents(SplitAt(Drop(p, LenBeforeBody(p)), "/"))

IsNormal(comp) == comp \notin {<<"/">>, <<".">>, <<".", ".">>}

\* Components::parse_next_component_back: the last piece of the body and
\* the number of bytes it takes with its separator.
ParseNextComponentBack(p) ==
    LET body == Drop(p, LenBeforeBody(p))
        k == LastIndexOf(body, "/")
        comp == Drop(body, k)
    IN  [size |-> (IF k = 0 THEN 0 ELSE 1) + Len(comp), comp |-> comp]

\* Components::trim_right: drop the trailing pieces that are no component.
RECURSIVE TrimRight(_)
TrimRight(p) ==
    IF Len(p) > LenBeforeBody(p)
    THEN LET back == ParseNextComponentBack(p)
         IN  IF IsComponent(back.comp) THEN p
             ELSE TrimRight(Take(p, Len(p) - back.size))
    ELSE p

\* Path::parent: the path without its last component, None for a root or
\* the empty path.
Parent(p) ==
    LET t == TrimRight(p)
    IN  IF Len(t) > LenBeforeBody(t)
        THEN Some(TrimRight(Take(t, Len(t) - ParseNextComponentBack(t).size)))
        ELSE IF HasRoot(t) THEN None
        ELSE IF IncludeCurDir(t) THEN Some(<<>>)
        ELSE None

\* Path::file_name: the last component when it is a Normal one.
FileName(p) ==
    LET comps == Components(p)
    IN  IF comps # <<>> /\ IsNormal(comps[Len(comps)])
        THEN Some(comps[Len(comps)])
        ELSE None

\* Path::file_stem: the file name up to its last dot; the whole name when
\* it has no dot or only a leading one.
FileStem(p) ==
    LET name == FileName(p)
        k == LastIndexOf(name.val, ".")
    IN  IF ~name.some THEN None
        ELSE IF k <= 1 THEN name
        ELSE Some(Take(name.val, k - 1))

\* Path::starts_with: base's components are a prefix of p's.
PathStartsWith(p, base) ==
    LET cp == Components(p)
        cb == Components(base)
    IN  Len(cb) <= Len(cp) /\ SubSeq(cp, 1, Len(cb)) = cb

\* Path::ends_with: child's components are a suffix of p's.
PathEndsWith(p, child) ==
    LET cp == Components(p)
        cc == Components(child)
    IN  Len(cc) <= Len(cp) /\ SubSeq(cp, Len(cp) - Len(cc) + 1, Len(cp)) = cc

\* PathBuf::push: an absolute path replaces the buffer, a relative one is
\* appended after a separator the buffer does not already end with.
PathPush(buf, path) ==
    IF HasRoot(path) THEN path
    ELSE IF buf # <<>> /\ Ch(buf, Len(buf)) # "/" THEN buf \o <<"/">> \o path
    ELSE buf \o path

----------------------------------------------------------------------------
(* The program's literals and the lines it writes.                         *)

Dash == Str("-")

LibDirFlag == Str("-L")

LibFlag == Str("-l")

LibPrefix == Str("lib")

IncludeFlag == Str("-I")

Isysroot == Str("-isysroot")

LinkSearchKey == Str("cargo:rustc-link-search=")

LinkLibKey == Str("cargo:rustc-link-lib=")

SdkPrefix == Str("/Library/Developer/CommandLineTools/SDKs")

SdkSuffix == Str("usr/include")

\* println!("cargo:rustc-link-search={}", ..)
LinkSearch(path) == LinkSearchKey \o path

\* println!("cargo:rustc-link-lib={}", ..)
LinkLib(name) == LinkLibKey \o name

\* A variant of possible_lib_names: the two names in the other order.
possible_lib_names_swapped == <<Str("boost_context-mt"), Str("boost_context")>>

\* &["boost_context", "boost_context-mt"]
possible_lib_names == <<Str("boost_context"), Str("boost_context-mt")>>

ArchiveSuffix == Str(".a")

\* format!("lib{}.a", possible_lib_name)
BoostFile(name) == LibPrefix \o name \o ArchiveSuffix

\* An observable event.  kind is "probe" (a pkg_config probe of the package
\* text), "spawn" (a pkg-config subprocess launched with the mode text),
\* "stdout" (the line text written) or "exists" (an existence check of the
\* path text).  step is the stage of the routine, idx the position of the
\* token (stage B) or of the lib_dirs entry (stage C) being processed, ok
\* what the environment answered: the probe succeeded, the subprocess was
\* launched, the file exists (TRUE for a line written).
Event(kind, text, step, idx, ok) ==
    [kind |-> kind, text |-> text, step |-> step, idx |-> idx, ok |-> ok]

RECURSIVE Stdout(_, _, _)
Stdout(lines, step, idx) ==
    IF lines = <<>> THEN <<>>
    ELSE <<Event("stdout", Head(lines), step, idx, TRUE)>> \o Stdout(Tail(lines), step, idx)

PkgFmt == Str("fmt")

PkgGflags == Str("gflags")

ModeLibs == Str("--libs")

ModeCflags == Str("--cflags")

\* Folly::new() and the value of a return.
NewFolly == [lib_dirs |-> <<>>, include_paths |-> <<>>, other_cflags |-> <<>>]

Running == [tag |-> "none", err |-> "", folly |-> <<>>]

Err(e) == [tag |-> "Err", err |-> e, folly |-> <<>>]

Ok(f) == [tag |-> "Ok", err |-> "", folly |-> <<f>>]

\* .expect(..) on undecodable output, .unwrap() on None.
Panic == [tag |-> "panic", err |-> "", folly |-> <<>>]

----------------------------------------------------------------------------
(* The body of the three loops, one iteration each.                        *)

\* A variant of LibsArgEffect: a library given by path also records its
\* parent directory in folly.lib_dirs.
LibsArgEffectRecordingParent(arg) ==
    LET dir == StripPrefix(arg, LibDirFlag)
        lib == StripPrefix(arg, LibFlag)
        parent == Parent(arg)
        lib_name == FileStem(arg)
        rest == StripPrefix(lib_name.val, LibPrefix)
    IN  IF StartsWith(arg, Dash)
        THEN IF dir.some THEN [dirs |-> <<dir.val>>, lines |-> <<>>]
             ELSE IF lib.some THEN [dirs |-> <<>>, lines |-> <<LinkLib(lib.val)>>]
             ELSE [dirs |-> <<>>, lines |-> <<>>]
        ELSE IF ~(parent.some /\ lib_name.some) THEN [dirs |-> <<>>, lines |-> <<>>]
        ELSE IF rest.some
             THEN [dirs |-> <<parent.val>>,
                   lines |-> <<LinkSearch(parent.val), LinkLib(rest.val)>>]
        ELSE [dirs |-> <<>>, lines |-> <<>>]

\* A variant of LibsArgEffect: the file stem of a path is linked whether or
\* not it starts with lib.
LibsArgEffectAnyStem(arg) ==
    LET dir == StripPrefix(arg, LibDirFlag)
        lib == StripPrefix(arg, LibFlag)
        parent == Parent(arg)
        lib_name == FileStem(arg)
        rest == StripPrefix(lib_name.val, LibPrefix)
    IN  IF StartsWith(arg, Dash)
        THEN IF dir.some THEN [dirs |-> <<dir.val>>, lines |-> <<>>]
             ELSE IF lib.some THEN [dirs |-> <<>>, lines |-> <<LinkLib(lib.val)>>]
             ELSE [dirs |-> <<>>, lines |-> <<>>]
        ELSE IF ~(parent.some /\ lib_name.some) THEN [dirs |-> <<>>, lines |-> <<>>]
        ELSE [dirs |-> <<>>,
              lines |-> <<LinkSearch(parent.val),
                          LinkLib(IF rest.some THEN rest.val ELSE lib_name.val)>>]

\* A variant of LibsArgEffect: a -l token is forwarded whole, with its
\* -l, instead of its remainder.
LibsArgEffectForwardingArg(arg) ==
    LET dir == StripPrefix(arg, LibDirFlag)
        lib == StripPrefix(arg, LibFlag)
        parent == Parent(arg)
        lib_name == FileStem(arg)
        rest == StripPrefix(lib_name.val, LibPrefix)
    IN  IF StartsWith(arg, Dash)
        THEN IF dir.some THEN [dirs |-> <<dir.val>>, lines |-> <<>>]
             ELSE IF lib.some THEN [dirs |-> <<>>, lines |-> <<LinkLib(arg)>>]
             ELSE [dirs |-> <<>>, lines |-> <<>>]
        ELSE IF ~(parent.some /\ lib_name.some) THEN [dirs |-> <<>>, lines |-> <<>>]
        ELSE IF rest.some
             THEN [dirs |-> <<>>, lines |-> <<LinkSearch(parent.val), LinkLib(rest.val)>>]
        ELSE [dirs |-> <<>>, lines |-> <<>>]

NoEffect == [dirs |-> <<>>, lines |-> <<>>]

\* One iteration of the loop over the --libs tokens: the directories it
\* pushes on folly.lib_dirs and the lines it writes.
LibsArgEffect(arg) ==
    LET dir == StripPrefix(arg, LibDirFlag)
        lib == StripPrefix(arg, LibFlag)
        parent == Parent(arg)
        lib_name == FileStem(arg)
        rest == StripPrefix(lib_name.val, LibPrefix)
    IN  IF StartsWith(arg, Dash)
        THEN IF dir.some THEN [dirs |-> <<dir.val>>, lines |-> <<>>]
             ELSE IF lib.some THEN [dirs |-> <<>>, lines |-> <<LinkLib(lib.val)>>]
             ELSE NoEffect
        ELSE IF ~(parent.some /\ lib_name.some) THEN NoEffect
        ELSE IF rest.some
             THEN [dirs |-> <<>>, lines |-> <<LinkSearch(parent.val), LinkLib(rest.val)>>]
        ELSE NoEffect

\* A variant of BoostLookup: the loop over the names goes on after a hit.
RECURSIVE BoostLookupNoBreak(_, _, _, _)
BoostLookupNoBreak(lib_dir, names, files, idx) ==
    IF names = <<>> THEN [events |-> <<>>, found |-> FALSE]
    ELSE LET path == PathPush(lib_dir, BoostFile(Head(names)))
             check == Event("exists", path, "C", idx, path \in files)
             later == BoostLookupNoBreak(lib_dir, Tail(names), files, idx)
         IN  IF path \notin files
             THEN [events |-> <<check>> \o later.events, found |-> later.found]
             ELSE [events |-> <<check, Event("stdout", LinkLib(Head(names)), "C", idx, TRUE)>>
                                 \o later.events,
                   found |-> TRUE]

\* The inner loop over the candidate names in one directory: the events
\* of the existence checks, up to and including the first hit and its
\* link-lib line.
RECURSIVE BoostLookup(_, _, _, _)
BoostLookup(lib_dir, names, files, idx) ==
    IF names = <<>> THEN [events |-> <<>>, found |-> FALSE]
    ELSE LET path == PathPush(lib_dir, BoostFile(Head(names)))
             check == Event("exists", path, "C", idx, path \in files)
             later == BoostLookup(lib_dir, Tail(names), files, idx)
         IN  IF path \notin files
             THEN [events |-> <<check>> \o later.events, found |-> later.found]
             ELSE [events |-> <<check, Event("stdout", LinkLib(Head(names)), "C", idx, TRUE)>>,
                   found |-> TRUE]

\* A variant of BoostDirEffect: a directory met after the hit is skipped
\* before its search line is written.
BoostDirEffectSkippingSearch(lib_dir, found, files, idx) ==
    LET search == Event("stdout", LinkSearch(lib_dir), "C", idx, TRUE)
        lookup == BoostLookup(lib_dir, possible_lib_names, files, idx)
    IN  IF found THEN [events |-> <<>>, found |-> TRUE]
        ELSE [events |-> <<search>> \o lookup.events, found |-> lookup.found]

\* One iteration of the loop over folly.lib_dirs.
BoostDirEffect(lib_dir, found, files, idx) ==
    LET search == Event("stdout", LinkSearch(lib_dir), "C", idx, TRUE)
        lookup == BoostLookup(lib_dir, possible_lib_names, files, idx)
    IN  IF found THEN [events |-> <<search>>, found |-> TRUE]
        ELSE [events |-> <<search>> \o lookup.events, found |-> lookup.found]

\* A variant of BoostMissing: the flag is not looked at.
BoostMissingIgnored(found) == FALSE

\* if !found_boost_context { return Err(..) }
BoostMissing(found) == ~found

\* A variant of CflagsArgEffect: only the trailing include is popped off
\* the SDK path.
CflagsArgEffectOneParent(arg) ==
    LET rest == StripPrefix(arg, IncludeFlag)
        path == rest.val
        sysroot == Parent(path).val
    IN  IF ~rest.some THEN [include |-> <<>>, cflags |-> <<>>, unwrap_none |-> FALSE]
        ELSE IF PathStartsWith(path, SdkPrefix) /\ PathEndsWith(path, SdkSuffix)
             THEN [include |-> <<>>, cflags |-> <<Isysroot, sysroot>>,
                   unwrap_none |-> ~Parent(path).some]
        ELSE [include |-> <<path>>, cflags |-> <<>>, unwrap_none |-> FALSE]

\* One iteration of the loop over the --cflags tokens: what it pushes on
\* folly.include_paths and on folly.other_cflags, and whether one of the
\* two unwrap() calls meets a None.
CflagsArgEffect(arg) ==
    LET rest == StripPrefix(arg, IncludeFlag)
        path == rest.val
        sysroot == Parent(Parent(path).val).val
    IN  IF ~rest.some THEN [include |-> <<>>, cflags |-> <<>>, unwrap_none |-> FALSE]
        ELSE IF PathStartsWith(path, SdkPrefix) /\ PathEndsWith(path, SdkSuffix)
             THEN [include |-> <<>>, cflags |-> <<Isysroot, sysroot>>,
                   unwrap_none |-> ~(Parent(path).some /\ Parent(Parent(path).val).some)]
        ELSE [include |-> <<path>>, cflags |-> <<>>, unwrap_none |-> FALSE]

----------------------------------------------------------------------------
(* The host environment.                                                   *)

\* Tokens the --libs output is built from: two search directories, a
\* library by name, a library by path.
LibsPool == {Str("-L/a"), Str("-L/b"), Str("-lf"), Str("/a/libd.a")}

ScenarioLibs == Str("-L/opt/folly/lib -lfolly -lglog /opt/folly/lib/libdouble-conversion.a")

\* Outputs taken whole: the specification's scenario, paths that are no
\* library or have no parent or no stem with flags that are neither -L nor
\* -l, and quoted or escaped words.
LibsScenarios ==
    { ScenarioLibs,
      Str("-pthread / .. /a/d.a libz.so.1 -L - lib.a -l -Wl,-rpath"),
      Str("-L'/a b' \"-lx y\" # -lc\n-L/a/ /b/libq\\ r.a") }

Tuples(pool, n) == UNION {[1..k -> pool] : k \in 0..n}

Space == Str(" ")

LibsTexts ==
    {JoinWith(ts, Space) : ts \in Tuples(LibsPool, MaxLibsTokens)} \cup LibsScenarios

\* Tokens the --cflags output is built from: an ordinary include path and
\* an include path inside a macOS SDK.
CflagsPool ==
    {Str("-I/u"), Str("-I/Library/Developer/CommandLineTools/SDKs/M.sdk/usr/include")}

ScenarioCflags ==
    Str("-I/usr/local/include -I/Library/Developer/CommandLineTools/SDKs/MacOSX.sdk/usr/include")

\* Outputs taken whole: the specification's scenario, tokens that are no
\* include path, and include paths that match only the prefix, only the
\* suffix, or match them only as strings and not as path components.
CflagsScenarios ==
    { ScenarioCflags,
      Str("-DX -I/u -std=c++17  -I/u"),
      Str("-I -I/Library/Developer/CommandLineTools/SDKsX/usr/include\t-I/x/usr/include")
          \o Str("\n-I/Library/Developer/CommandLineTools/SDKs/M.sdk/usr/lib -isystem/u")
          \o Str(" -I/Library/Developer/CommandLineTools/SDKs/usr/./include/") }

CflagsTexts ==
    {JoinWith(ts, Space) : ts \in Tuples(CflagsPool, MaxCflagsTokens)} \cup CflagsScenarios

\* What Command::output() followed by String::from_utf8 can give.
IoError == [kind |-> "io_error", text |-> <<>>]

NotUtf8 == [kind |-> "not_utf8", text |-> <<>>]

Text(t) == [kind |-> "text", text |-> t]

\* Command::output() returned Ok: the subprocess ran.
Launched(output) == output.kind # "io_error"

LibsOutputs == {IoError, NotUtf8} \cup {Text(t) : t \in LibsTexts}

CflagsOutputs == {IoError, NotUtf8} \cup {Text(t) : t \in CflagsTexts}

BoostFilesIn(dirs) ==
    {PathPush(d, BoostFile(possible_lib_names[k])) : d \in dirs, k \in 1..Len(possible_lib_names)}

ScenarioDir == Str("/opt/folly/lib")

\* The files on disk: any combination of the two variants in /a and /b, or
\* one of the variants in the scenario's directory.
FsChoices ==
    (SUBSET BoostFilesIn({Str("/a"), Str("/b")})) \cup {{f} : f \in BoostFilesIn({ScenarioDir})}

----------------------------------------------------------------------------
(* probe_folly(), step by step.                                            *)

Init ==
    /\ pc = "probe_fmt"
    /\ result = Running
    /\ fs \in FsChoices
    /\ trace = <<>>
    /\ libs_args = <<>>
    /\ li = 1
    /\ lib_dirs = NewFolly.lib_dirs
    /\ di = 1
    /\ found_boost_context = FALSE
    /\ cflags_args = <<>>
    /\ ci = 1
    /\ include_paths = NewFolly.include_paths
    /\ other_cflags = NewFolly.other_cflags

Return(r) == pc' = "done" /\ result' = r

\* Config::new().statik(true).probe("fmt").map_err(FollyError::FmtDependency)?
ProbeFmt ==
    /\ pc = "probe_fmt"
    /\ \E ok \in BOOLEAN :
          /\ trace' = Append(trace, Event("probe", PkgFmt, "A", 0, ok))
          /\ IF ok THEN pc' = "probe_gflags" /\ UNCHANGED result
             ELSE Return(Err("FmtDependency"))
    /\ UNCHANGED <<fs, libs_args, li, lib_dirs, di, found_boost_context,
                   cflags_args, ci, include_paths, other_cflags>>

\* Config::new().statik(true).probe("gflags").map_err(FollyError::GflagsDependency)?
ProbeGflags ==
    /\ pc = "probe_gflags"
    /\ \E ok \in BOOLEAN :
          /\ trace' = Append(trace, Event("probe", PkgGflags, "A", 0, ok))
          /\ IF ok THEN pc' = "query_libs" /\ UNCHANGED result
             ELSE Return(Err("GflagsDependency"))
    /\ UNCHANGED <<fs, libs_args, li, lib_dirs, di, found_boost_context,
                   cflags_args, ci, include_paths, other_cflags>>

\* A variant of QueryLibs: a launch failure is taken for an empty output.
QueryLibsIgnoringLaunchFailure ==
    /\ pc = "query_libs"
    /\ \E output \in LibsOutputs :
          /\ trace' = Append(trace, Event("spawn", ModeLibs, "B", 0, Launched(output)))
          /\ CASE output.kind = "not_utf8" ->
                  Return(Panic) /\ UNCHANGED libs_args
               [] OTHER ->
                  /\ libs_args' = Shlex(output.text)
                  /\ pc' = "parse_libs"
                  /\ UNCHANGED result
    /\ UNCHANGED <<fs, li, lib_dirs, di, found_boost_context,
                   cflags_args, ci, include_paths, other_cflags>>

\* pkg-config --static --libs libfolly, decoded and tokenized.
QueryLibs ==
    /\ pc = "query_libs"
    /\ \E output \in LibsOutputs :
          /\ trace' = Append(trace, Event("spawn", ModeLibs, "B", 0, Launched(output)))
          /\ CASE output.kind = "io_error" ->
                  Return(Err("MainPackage")) /\ UNCHANGED libs_args
               [] output.kind = "not_utf8" ->
                  Return(Panic) /\ UNCHANGED libs_args
               [] OTHER ->
                  /\ libs_args' = Shlex(output.text)
                  /\ pc' = "parse_libs"
                  /\ UNCHANGED result
    /\ UNCHANGED <<fs, li, lib_dirs, di, found_boost_context,
                   cflags_args, ci, include_paths, other_cflags>>

\* for arg in Shlex::new(&output) { .. }: one token.
ParseLibsArg ==
    /\ pc = "parse_libs"
    /\ li <= Len(libs_args)
    /\ LET effect == LibsArgEffect(libs_args[li])
       IN  /\ lib_dirs' = lib_dirs \o effect.dirs
           /\ trace' = trace \o Stdout(effect.lines, "B", li)
    /\ li' = li + 1
    /\ UNCHANGED <<pc, result, fs, libs_args, di, found_boost_context,
                   cflags_args, ci, include_paths, other_cflags>>

\* The token loop is over: let mut found_boost_context = false.
EndParseLibs ==
    /\ pc = "parse_libs"
    /\ li > Len(libs_args)
    /\ pc' = "find_boost"
    /\ found_boost_context' = FALSE
    /\ di' = 1
    /\ UNCHANGED <<result, fs, trace, libs_args, li, lib_dirs,
                   cflags_args, ci, include_paths, other_cflags>>

\* for lib_dir in &folly.lib_dirs { .. }: one directory.
FindBoostDir ==
    /\ pc = "find_boost"
    /\ di <= Len(lib_dirs)
    /\ LET effect == BoostDirEffect(lib_dirs[di], found_boost_context, fs, di)
       IN  /\ trace' = trace \o effect.events
           /\ found_boost_context' = effect.found
    /\ di' = di + 1
    /\ UNCHANGED <<pc, result, fs, libs_args, li, lib_dirs,
                   cflags_args, ci, include_paths, other_cflags>>

\* The directory loop is over: fail with BoostContext or go on.
EndFindBoost ==
    /\ pc = "find_boost"
    /\ di > Len(lib_dirs)
    /\ IF BoostMissing(found_boost_context)
       THEN Return(Err("BoostContext"))
       ELSE pc' = "query_cflags" /\ UNCHANGED result
    /\ UNCHANGED <<fs, trace, libs_args, li, lib_dirs, di, found_boost_context,
                   cflags_args, ci, include_paths, other_cflags>>

\* pkg-config --static --cflags libfolly, decoded and split on whitespace.
QueryCflags ==
    /\ pc = "query_cflags"
    /\ \E output \in CflagsOutputs :
          /\ trace' = Append(trace, Event("spawn", ModeCflags, "D", 0, Launched(output)))
          /\ CASE output.kind = "io_error" ->
                  Return(Err("MainPackage")) /\ UNCHANGED cflags_args
               [] output.kind = "not_utf8" ->
                  Return(Panic) /\ UNCHANGED cflags_args
               [] OTHER ->
                  /\ cflags_args' = SplitWhitespace(output.text)
                  /\ pc' = "parse_cflags"
                  /\ UNCHANGED result
    /\ UNCHANGED <<fs, libs_args, li, lib_dirs, di, found_boost_context,
                   ci, include_paths, other_cflags>>

\* for arg in output.split_whitespace() { .. }: one token.
ParseCflagsArg ==
    /\ pc = "parse_cflags"
    /\ ci <= Len(cflags_args)
    /\ LET effect == CflagsArgEffect(cflags_args[ci])
       IN  IF effect.unwrap_none
           THEN Return(Panic) /\ UNCHANGED <<include_paths, other_cflags, ci>>
           ELSE /\ include_paths' = include_paths \o effect.include
                /\ other_cflags' = other_cflags \o effect.cflags
                /\ ci' = ci + 1
                /\ UNCHANGED <<pc, result>>
    /\ UNCHANGED <<fs, trace, libs_args, li, lib_dirs, di, found_boost_context,
                   cflags_args>>

\* Ok(folly)
ReturnOk ==
    /\ pc = "parse_cflags"
    /\ ci > Len(cflags_args)
    /\ Return(Ok([lib_dirs |-> lib_dirs, include_paths |-> include_paths,
                  other_cflags |-> other_cflags]))
    /\ UNCHANGED <<fs, trace, libs_args, li, lib_dirs, di, found_boost_context,
                   cflags_args, ci, include_paths, other_cflags>>

Next ==
    \/ ProbeFmt
    \/ ProbeGflags
    \/ QueryLibs
    \/ ParseLibsArg
    \/ EndParseLibs
    \/ FindBoostDir
    \/ EndFindBoost
    \/ QueryCflags
    \/ ParseCflagsArg
    \/ ReturnOk

Spec == Init /\ [][Next]_vars

----------------------------------------------------------------------------
(* Vocabulary of the properties.                                           *)

BoostContextName == Str("boost_context")

BoostContextMtName == Str("boost_context-mt")

\* Directory dir holds the file lib<name>.a.
HasVariant(dir, name) == PathPush(dir, LibPrefix \o name \o ArchiveSuffix) \in fs

\* The d-th recorded directory holds one of the two variants.
Contains(d) ==
    HasVariant(lib_dirs[d], BoostContextName) \/ HasVariant(lib_dirs[d], BoostContextMtName)

Positions == 1..Len(trace)

IsSearchLine(e) == e.kind = "stdout" /\ StartsWith(e.text, LinkSearchKey)

IsLinkLine(e) == e.kind = "stdout" /\ StartsWith(e.text, LinkLibKey)

\* The loop over folly.lib_dirs is over (or the call ended before it).
StepCOver ==
    \/ pc \in {"query_cflags", "parse_cflags", "done"}
    \/ pc = "find_boost" /\ di > Len(lib_dirs)

CflagsSpawned == \E p \in Positions : trace[p].kind = "spawn" /\ trace[p].text = ModeCflags

\* The call ended before the loop over folly.lib_dirs: a probe failed, the
\* --libs query could not be launched, or its output was not UTF-8.
FailedEarlier ==
    \/ \E p \in Positions : trace[p].kind = "probe" /\ ~trace[p].ok
    \/ \E p \in Positions : trace[p].kind = "spawn" /\ trace[p].text = ModeLibs /\ ~trace[p].ok
    \/ result = Panic /\ ~CflagsSpawned

\* The remainders of the -L tokens of args, in token order.
RECURSIVE DirRemainders(_)
DirRemainders(args) ==
    IF args = <<>> THEN <<>>
    ELSE (IF StartsWith(Head(args), LibDirFlag) THEN <<Drop(Head(args), 2)>> ELSE <<>>)
             \o DirRemainders(Tail(args))

ScenarioLibsArgs ==
    <<Str("-L/opt/folly/lib"), Str("-lfolly"), Str("-lglog"),
      Str("/opt/folly/lib/libdouble-conversion.a")>>

ScenarioCflagsArgs ==
    <<Str("-I/usr/local/include"),
      Str("-I/Library/Developer/CommandLineTools/SDKs/MacOSX.sdk/usr/include")>>

ScenarioIncludePaths == <<Str("/usr/local/include")>>

ScenarioOtherCflags ==
    <<Str("-isysroot"), Str("/Library/Developer/CommandLineTools/SDKs/MacOSX.sdk")>>

----------------------------------------------------------------------------
(* C1.  For tokens -L<dir> ... -l<name> of the --libs output, the          *)
(* search-directory line of <dir> is written before the link-library line  *)
(* of <name>.  The code writes the link-library line while parsing and the *)
(* search-directory line only in the later loop over lib_dirs.             *)

C1_SearchDirBeforeLinkLib ==
    \A i, k \in 1..Len(libs_args) :
        (i < k /\ StartsWith(libs_args[i], LibDirFlag) /\ StartsWith(libs_args[k], LibFlag))
        => \A q \in Positions :
              (IsLinkLine(trace[q]) /\ trace[q].step = "B" /\ trace[q].idx = k)
              => \E p \in 1..(q - 1) :
                    /\ trace[p].kind = "stdout"
                    /\ trace[p].text = LinkSearch(Drop(libs_args[i], 2))

----------------------------------------------------------------------------
(* C2.  The search for boost_context goes through the recorded directories *)
(* in recording order and, in each, looks for libboost_context.a before    *)
(* libboost_context-mt.a; the link-library line written is for the first   *)
(* recorded directory that holds either file, and names boost_context when *)
(* that directory holds libboost_context.a, boost_context-mt otherwise.    *)

ExistsChecks == {p \in Positions : trace[p].kind = "exists"}

StepCLinks == {p \in Positions : trace[p].step = "C" /\ IsLinkLine(trace[p])}

FirstPath(d) == PathPush(lib_dirs[d], Str("libboost_context.a"))

SecondPath(d) == PathPush(lib_dirs[d], Str("libboost_context-mt.a"))

C2_SearchOrder ==
    /\ \A p \in ExistsChecks :
          /\ trace[p].idx \in 1..Len(lib_dirs)
          /\ trace[p].text \in {FirstPath(trace[p].idx), SecondPath(trace[p].idx)}
    /\ \A p, q \in ExistsChecks :
          p < q => \/ trace[p].idx < trace[q].idx
                   \/ /\ trace[p].idx = trace[q].idx
                      /\ trace[p].text = FirstPath(trace[p].idx)
                      /\ ~trace[p].ok
                      /\ trace[q].text = SecondPath(trace[q].idx)
    /\ StepCOver =>
          LET hits == {d \in 1..Len(lib_dirs) : Contains(d)}
              first == CHOOSE d \in hits : \A e \in hits : d <= e
          IN  IF hits = {} THEN StepCLinks = {}
              ELSE /\ \A d \in 1..first : \E p \in ExistsChecks : trace[p].idx = d
                   /\ \E p \in Positions :
                         /\ StepCLinks = {p}
                         /\ trace[p].idx = first
                         /\ trace[p].text =
                               LinkLib(IF HasVariant(lib_dirs[first], BoostContextName)
                                       THEN BoostContextName ELSE BoostContextMtName)

\* Two directories, only the second holds libboost_context-mt.a and none
\* holds libboost_context.a: the call succeeds.
C2_Witness ==
    /\ result.tag = "Ok"
    /\ Len(lib_dirs) = 2
    /\ lib_dirs[1] # lib_dirs[2]
    /\ ~Contains(1)
    /\ HasVariant(lib_dirs[2], BoostContextMtName)
    /\ ~HasVariant(lib_dirs[2], BoostContextName)
    /\ \E p \in StepCLinks : trace[p].text = LinkLib(BoostContextMtName)

----------------------------------------------------------------------------
(* C3.  When no recorded directory holds either variant (also when no      *)
(* directory was recorded), the call returns BoostContext, returns no      *)
(* Folly value and never launches the --cflags query.                      *)

NoVariantAnywhere == \A d \in 1..Len(lib_dirs) : ~Contains(d)

C3_BoostContextError ==
    (pc \notin {"probe_fmt", "probe_gflags", "query_libs", "parse_libs"} /\ NoVariantAnywhere)
    => /\ ~CflagsSpawned
       /\ pc \notin {"query_cflags", "parse_cflags"}
       /\ result.folly = <<>>
       /\ (pc = "done" /\ ~FailedEarlier) => result = Err("BoostContext")

C3_Witness ==
    /\ pc = "done"
    /\ result = Err("BoostContext")
    /\ Len(lib_dirs) = 2
    /\ NoVariantAnywhere
    /\ Cardinality(ExistsChecks) = 4

----------------------------------------------------------------------------
(* C4.  Each -I token of the --cflags output whose path lies under the SDK *)
(* directory and ends with usr/include appends -isysroot and the path's    *)
(* grandparent to other_cflags and nothing to include_paths; every other   *)
(* -I token appends its path to include_paths, in token order, duplicates  *)
(* kept; every other token changes neither.                                *)

IsSdkInclude(path) == PathStartsWith(path, SdkPrefix) /\ PathEndsWith(path, SdkSuffix)

RECURSIVE ExpectedIncludePaths(_)
ExpectedIncludePaths(args) ==
    IF args = <<>> THEN <<>>
    ELSE LET arg == Head(args)
         IN  (IF StartsWith(arg, IncludeFlag) /\ ~IsSdkInclude(Drop(arg, 2))
              THEN <<Drop(arg, 2)>> ELSE <<>>) \o ExpectedIncludePaths(Tail(args))

RECURSIVE ExpectedOtherCflags(_)
ExpectedOtherCflags(args) ==
    IF args = <<>> THEN <<>>
    ELSE LET arg == Head(args)
         IN  (IF StartsWith(arg, IncludeFlag) /\ IsSdkInclude(Drop(arg, 2))
              THEN <<Isysroot, Parent(Parent(Drop(arg, 2)).val).val>> ELSE <<>>)
                 \o ExpectedOtherCflags(Tail(args))

C4_CflagsRewrite ==
    /\ pc = "parse_cflags" =>
          /\ include_paths = ExpectedIncludePaths(Take(cflags_args, ci - 1))
          /\ other_cflags = ExpectedOtherCflags(Take(cflags_args, ci - 1))
    /\ result.tag = "Ok" =>
          /\ result.folly[1].include_paths = ExpectedIncludePaths(cflags_args)
          /\ result.folly[1].other_cflags = ExpectedOtherCflags(cflags_args)
    /\ (result.tag = "Ok" /\ cflags_args = ScenarioCflagsArgs) =>
          /\ result.folly[1].include_paths = ScenarioIncludePaths
          /\ result.folly[1].other_cflags = ScenarioOtherCflags

C4_Witness ==
    /\ result.tag = "Ok"
    /\ cflags_args = ScenarioCflagsArgs
    /\ result.folly[1].other_cflags = ScenarioOtherCflags

----------------------------------------------------------------------------
(* C5.  On success the returned lib_dirs is the sequence of the remainders *)
(* of the -L tokens of the --libs output, one entry per token, in token    *)
(* order, duplicates kept, and nothing else: the parent of a library given *)
(* by path is not added.                                                   *)

C5_LibDirs ==
    /\ result.tag = "Ok" => result.folly[1].lib_dirs = DirRemainders(libs_args)
    /\ (result.tag = "Ok" /\ libs_args = ScenarioLibsArgs) =>
          result.folly[1].lib_dirs = <<ScenarioDir>>

C5_Witness ==
    /\ result.tag = "Ok"
    /\ libs_args = ScenarioLibsArgs
    /\ result.folly[1].lib_dirs = <<ScenarioDir>>

----------------------------------------------------------------------------
(* C6.  While the --libs output is parsed, every token that does not start *)
(* with '-' and whose file stem starts with lib writes one search line for *)
(* its parent directory, immediately followed by one link-library line for *)
(* the stem without lib; such a token whose stem lacks the prefix, or that *)
(* has no parent or no stem, writes nothing.                               *)

\* The lines written for the k-th token of the --libs output.
TokenLines(k) ==
    {p \in Positions : trace[p].kind = "stdout" /\ trace[p].step = "B" /\ trace[p].idx = k}

Processed == 1..(li - 1)

C6_LibraryPaths ==
    \A k \in Processed :
        LET arg == libs_args[k]
            stem == FileStem(arg)
            parent == Parent(arg)
        IN  ~StartsWith(arg, Dash) =>
               IF stem.some /\ StartsWith(stem.val, LibPrefix)
               THEN /\ parent.some
                    /\ \E p \in Positions :
                          /\ TokenLines(k) = {p, p + 1}
                          /\ p + 1 \in Positions
                          /\ trace[p].text = LinkSearch(parent.val)
                          /\ trace[p + 1].text = LinkLib(Drop(stem.val, 3))
               ELSE TokenLines(k) = {}

DoubleConversion == Str("double-conversion")

\* The scenario's library path has just been parsed.
C6_Witness ==
    /\ pc = "parse_libs"
    /\ \E k \in Processed :
          /\ libs_args[k] = ScenarioLibsArgs[4]
          /\ \E p \in TokenLines(k) :
                /\ trace[p].text = LinkSearch(ScenarioDir)
                /\ trace[p + 1].text = LinkLib(DoubleConversion)

----------------------------------------------------------------------------
(* C7 as claimed.  In the loop over lib_dirs every recorded directory is   *)
(* written as a search line exactly once overall.                          *)

\* The search lines of directory dir written by the loop over lib_dirs.
StepCSearchesOf(dir) ==
    {p \in Positions : trace[p].step = "C" /\ trace[p].kind = "stdout"
                          /\ trace[p].text = LinkSearch(dir)}

C7_OncePerDirectory ==
    StepCOver => \A d \in 1..Len(lib_dirs) : Cardinality(StepCSearchesOf(lib_dirs[d])) = 1

(* C7 as amended.  In the loop over lib_dirs every entry of lib_dirs gives *)
(* exactly one search line, written in recording order and before any file *)
(* lookup for that entry, whether or not the lookup succeeds and whether   *)
(* or not the dependency was found before, also when the call then fails   *)
(* with BoostContext: a directory recorded n times is written n times.     *)

\* The search lines written for the d-th entry of lib_dirs.
EntrySearches(d) == {p \in Positions : trace[p].step = "C" /\ IsSearchLine(trace[p])
                                          /\ trace[p].idx = d}

C7_OncePerEntry ==
    /\ \A d \in 1..Len(lib_dirs) :
          IF d < di
          THEN \E p \in Positions :
                  EntrySearches(d) = {p} /\ trace[p].text = LinkSearch(lib_dirs[d])
          ELSE EntrySearches(d) = {}
    /\ \A d, e \in 1..Len(lib_dirs) : \A p \in EntrySearches(d) : \A q \in EntrySearches(e) :
          d < e => p < q
    /\ \A q \in ExistsChecks : \E p \in EntrySearches(trace[q].idx) : p < q
    /\ StepCOver => di = Len(lib_dirs) + 1 \/ lib_dirs = <<>>

\* The same directory recorded twice, the dependency found in the first
\* entry: both entries were written.
C7_Witness ==
    /\ StepCOver
    /\ Len(lib_dirs) = 2
    /\ lib_dirs[1] = lib_dirs[2]
    /\ Contains(1)
    /\ Cardinality(StepCSearchesOf(lib_dirs[1])) = 2

----------------------------------------------------------------------------
(* C8.  Every fatal condition ends the call where it occurs, with the      *)
(* error of that stage and no Folly value: a failed fmt probe gives        *)
(* FmtDependency and gflags is not probed; a failed gflags probe gives     *)
(* GflagsDependency and no subprocess is launched; a --libs launch failure *)
(* gives MainPackage with no line written, no existence check and no       *)
(* --cflags query; a --cflags launch failure gives MainPackage.            *)

FailedProbe(pkg) ==
    \E p \in Positions : trace[p].kind = "probe" /\ trace[p].text = pkg /\ ~trace[p].ok

FailedLaunch(mode) ==
    \E p \in Positions : trace[p].kind = "spawn" /\ trace[p].text = mode /\ ~trace[p].ok

C8_FatalConditions ==
    /\ FailedProbe(PkgFmt) =>
          /\ pc = "done" /\ result = Err("FmtDependency")
          /\ Len(trace) = 1
    /\ FailedProbe(PkgGflags) =>
          /\ pc = "done" /\ result = Err("GflagsDependency")
          /\ \A p \in Positions : trace[p].kind = "probe"
    /\ FailedLaunch(ModeLibs) =>
          /\ pc = "done" /\ result = Err("MainPackage")
          /\ \A p \in Positions : trace[p].kind \notin {"stdout", "exists"}
          /\ ~CflagsSpawned
    /\ FailedLaunch(ModeCflags) =>
          /\ pc = "done" /\ result = Err("MainPackage")
          /\ trace[Len(trace)].kind = "spawn"
    /\ result.tag = "Err" =>
          /\ pc = "done" /\ result.folly = <<>>
          /\ result.err = "FmtDependency" <=> FailedProbe(PkgFmt)
          /\ result.err = "GflagsDependency" <=> FailedProbe(PkgGflags)
          /\ result.err = "MainPackage" <=> (FailedLaunch(ModeLibs) \/ FailedLaunch(ModeCflags))

\* The --cflags query could not be launched, after lines were written.
C8_Witness ==
    /\ FailedLaunch(ModeCflags)
    /\ result = Err("MainPackage")
    /\ lib_dirs # <<>>

----------------------------------------------------------------------------
(* C9.  While the --libs output is parsed, every -l<name> token writes at  *)
(* once one link-library line for <name>, so that these lines come in      *)
(* token order among the lines of the library paths; a token that starts   *)
(* with '-' but with neither -L nor -l writes nothing and records no       *)
(* directory.  In the scenario folly, glog and double-conversion are each  *)
(* linked exactly once.                                                    *)

LinkLinesOf(name) == {p \in Positions : trace[p].kind = "stdout" /\ trace[p].text = LinkLib(name)}

Folly == Str("folly")

Glog == Str("glog")

C9_LibraryNames ==
    /\ \A k \in Processed :
          LET arg == libs_args[k]
          IN  (StartsWith(arg, Dash) /\ ~StartsWith(arg, LibDirFlag)) =>
                 IF StartsWith(arg, LibFlag)
                 THEN \E p \in Positions :
                         TokenLines(k) = {p} /\ trace[p].text = LinkLib(Drop(arg, 2))
                 ELSE TokenLines(k) = {}
    /\ \A p, q \in Positions :
          (p < q /\ trace[p].step = "B" /\ trace[q].step = "B") => trace[p].idx <= trace[q].idx
    /\ \A p \in Positions : trace[p].step = "B" => trace[p].idx < li
    /\ Len(lib_dirs) = Cardinality({k \in Processed : StartsWith(libs_args[k], LibDirFlag)})
    /\ (libs_args = ScenarioLibsArgs /\ pc # "parse_libs") =>
          \A name \in {Folly, Glog, DoubleConversion} : Cardinality(LinkLinesOf(name)) = 1

\* The scenario, right after its -lglog was parsed: folly and glog are
\* written, nothing of the library path yet.
C9_Witness ==
    /\ pc = "parse_libs"
    /\ libs_args = ScenarioLibsArgs
    /\ li = 4
    /\ trace[Len(trace) - 1].text = LinkLib(Folly)
    /\ trace[Len(trace)].text = LinkLib(Glog)

----------------------------------------------------------------------------
(* C10.  The loop over lib_dirs writes at most one link-library line, for  *)
(* boost_context or boost_context-mt, and exactly one when the call        *)
(* succeeds; after it no existence check is made, and the only lines       *)
(* written are the search lines of the remaining recorded directories.     *)

C10_SingleMatch ==
    /\ Cardinality(StepCLinks) <= 1
    /\ \A p \in StepCLinks :
          trace[p].text \in {LinkLib(BoostContextName), LinkLib(BoostContextMtName)}
    /\ result.tag = "Ok" => Cardinality(StepCLinks) = 1
    /\ \A p \in StepCLinks : \A q \in Positions :
          q > p => /\ trace[q].kind # "exists"
                   /\ trace[q].kind = "stdout" =>
                         /\ trace[q].step = "C"
                         /\ trace[q].idx > trace[p].idx
                         /\ trace[q].text = LinkSearch(lib_dirs[trace[q].idx])

\* Both variants in the first of two directories that hold them: one line,
\* for boost_context, and the second directory's search line after it.
C10_Witness ==
    /\ result.tag = "Ok"
    /\ Len(lib_dirs) = 2
    /\ HasVariant(lib_dirs[1], BoostContextName)
    /\ HasVariant(lib_dirs[1], BoostContextMtName)
    /\ Contains(2)
    /\ \E p \in StepCLinks : \E q \in Positions :
          /\ q > p
          /\ trace[p].text = LinkLib(BoostContextName)
          /\ trace[q].text = LinkSearch(lib_dirs[2])

====
